---- MODULE Spec2Model ----
\* xspin: the render loop (SyncRuntime / AsyncRuntime), the process-wide
\* `state` registration and the module-level stop(), modelled from
\* src/src/xspin/__init__.py.
EXTENDS Integers, Sequences, FiniteSets, TLC

\* ---------------------------------------------------------------- bounds
NLoops == 2          \* runtime instances the caller owns
MaxStarts == 2       \* worker handles (threads / tasks) ever created
MaxTrace == 4        \* events recorded; a longer trace is replaced by Overflow
MaxLen == 4          \* code points in a frame text
MaxWidth == 2        \* rows / columns a terminal reports
MaxN == 3            \* rows clear_lines is asked to erase

Loops == 1..NLoops
Handles == 1..MaxStarts

\* ---------------------------------------------------------------- values
\* Python object references: a type tag and an identity.
None == [type |-> "NoneType", id |-> 0]
Kinds == {"SyncRuntime", "AsyncRuntime"}
HandleType(k) == IF k = "SyncRuntime" THEN "Thread" ELSE "Task"
isinstance(ref, cls) == ref.type = cls
truthy(ref) == ref.type # "NoneType"

\* message texts the caller writes, the loops it writes them to, and the
\* epilogues it passes to stop(); NoArg is Python's None for a str | None
\* argument.
NoArg == "<None>"
Msgs == {"a", "b"}
Writable == {1}
Epilogues == {NoArg, "", "e"}

\* what the render hook hands back: an iterable of row counts, either a
\* list (restartable) or a generator (consumed by the first sum()).
NoClearable == [set |-> FALSE, lazy |-> FALSE, rows |-> <<>>]
List(r) == [set |-> TRUE, lazy |-> FALSE, rows |-> r]
Gen(r) == [set |-> TRUE, lazy |-> TRUE, rows |-> r]
HookReturns == {List(<<1>>), Gen(<<1>>)}

RECURSIVE SeqSum(_)
SeqSum(s) == IF s = <<>> THEN 0 ELSE Head(s) + SeqSum(Tail(s))
\* sum(clearable): the total, and the iterable as the call leaves it
sum(c) == SeqSum(c.rows)
consumed(c) == IF c.lazy THEN [c EXCEPT !.rows = <<>>] ELSE c
\* `if clearable:` -- None and the empty list are falsy, a generator is truthy
clearable_truthy(c) == c.set /\ (c.lazy \/ c.rows # <<>>)

\* ---------------------------------------------------------------- frame text
\* A str is a sequence of code points, named: "x" and "m" are printable ASCII
\* letters, ESC is U+001B, LF is U+000A, "CJK" is an East Asian Wide
\* ideograph, "ACUTE" is the combining acute accent U+0301.
ESC == "ESC"
LF == "LF"
Alphabet == {"x", "m", ESC, LF, "CJK", "ACUTE"}
Texts == UNION {[1..k -> Alphabet] : k \in 0..MaxLen}
ASCII == {"x", "m", ESC, LF}
\* unicodedata: category Cc / Cf, combining class # 0, east_asian_width W / F
Control == {ESC, LF}
Combining == {"ACUTE"}
Wide == {"CJK"}

\* the terminal stdin is attached to: no terminal (the ioctl raises OSError)
\* or one whose window size is row x col
NoTty == [ok |-> FALSE, row |-> 0, col |-> 0]
Terminals == {NoTty} \cup {[ok |-> TRUE, row |-> r, col |-> c] : r \in 1..MaxWidth, c \in 1..MaxWidth}

\* a call that returns v / a call that raises
Return(v) == [raised |-> FALSE, val |-> v]
Raise == [raised |-> TRUE, val |-> 0]

\* ioctl(FD, termios.TIOCGWINSZ, "1234"): the kernel fills struct winsize
\* (ws_row, ws_col, ws_xpixel, ws_ypixel, four unsigned shorts) and the call
\* returns as many bytes as its argument has: the four bytes of "1234", two
\* unsigned shorts.
BufLen == 2
ioctl(ws) ==
  IF ws.ok THEN Return(SubSeq(<<ws.row, ws.col, 0, 0>>, 1, BufLen)) ELSE Raise
\* unpack("HHHH", buf) raises struct.error unless buf holds four shorts
FormatLen == 4
unpack(buf) == IF Len(buf) = FormatLen THEN Return(buf) ELSE Raise
\* except Exception: return 80
DefaultWidth == 80
\* rows, *_ = unpack("HHHH", ioctl(...)); return rows
get_console_width(ws) ==
  LET reply == ioctl(ws)
      fields == IF reply.raised THEN Raise ELSE unpack(reply.val)
  IN IF fields.raised THEN DefaultWidth ELSE Head(fields.val)

\* a substitution that stops after the first match
RECURSIVE sub_first(_)
sub_first(text) ==
  IF text = <<>> THEN <<>>
  ELSE IF Head(text) = ESC /\ \E k \in 2..Len(text) : text[k] = "m"
       THEN LET j == CHOOSE k \in 2..Len(text) :
                       text[k] = "m" /\ \A i \in 2..(k - 1) : text[i] # "m"
            IN SubSeq(text, j + 1, Len(text))
       ELSE <<Head(text)>> \o sub_first(Tail(text))
\* get_pattern().sub("", text) with the pattern ESC [^m]*? m: scanning from
\* the left, an ESC that has an "m" somewhere after it is removed together
\* with everything up to and including the first such "m" ([^m] matches line
\* breaks and further ESCs as well); any other code point is kept.
RECURSIVE sub(_)
sub(text) ==
  IF text = <<>> THEN <<>>
  ELSE IF Head(text) = ESC /\ \E k \in 2..Len(text) : text[k] = "m"
       THEN LET j == CHOOSE k \in 2..Len(text) :
                       text[k] = "m" /\ \A i \in 2..(k - 1) : text[i] # "m"
            IN sub(SubSeq(text, j + 1, Len(text)))
       ELSE <<Head(text)>> \o sub(Tail(text))

isascii(text) == \A i \in 1..Len(text) : text[i] \in ASCII

\* text.splitlines(): the pieces between line breaks, without a trailing
\* empty piece
RECURSIVE splitlines(_)
splitlines(text) ==
  IF text = <<>> THEN <<>>
  ELSE IF \E k \in 1..Len(text) : text[k] = LF
       THEN LET j == CHOOSE k \in 1..Len(text) :
                       text[k] = LF /\ \A i \in 1..(k - 1) : text[i] # LF
            IN <<SubSeq(text, 1, j - 1)>> \o splitlines(SubSeq(text, j + 1, Len(text)))
       ELSE <<text>>

\* len(line)
len(line) == Return(Len(line))
\* chwidth(char); unicodedata.category raises TypeError for a str that is
\* not exactly one code point
chwidth(char) ==
  IF Len(char) # 1 THEN Raise
  ELSE Return(IF char[1] \in Control THEN -1
              ELSE IF char[1] \in Combining THEN 0
              ELSE IF char[1] \in Wide THEN 2
              ELSE 1)
\* math.ceil(a / b) for b > 0
ceil(a, b) == -((-a) \div b)

\* for line in text.splitlines(): yield ceil(length(line) / console_width),
\* as the consumer of the generator sees it: the values yielded, and whether
\* the iteration ended in an exception
RECURSIVE yield(_, _, _)
yield(lines, ascii, console_width) ==
  IF lines = <<>> THEN [rows |-> <<>>, raised |-> FALSE]
  ELSE LET length == IF ascii THEN len(Head(lines)) ELSE chwidth(Head(lines))
           rest == yield(Tail(lines), ascii, console_width)
       IN IF length.raised
          THEN [rows |-> <<>>, raised |-> TRUE]
          ELSE [rows |-> <<ceil(length.val, console_width)>> \o rest.rows,
                raised |-> rest.raised]
\* get_lines(text), on the terminal ws
get_lines(text, ws) ==
  LET console_width == get_console_width(ws)
      stripped == sub(text)
  IN yield(splitlines(stripped), isascii(stripped), console_width)

\* what clear_lines writes, as terminal commands: CHA is ESC[1G (cursor to
\* column 1), CUU is ESC[1A (cursor up one row), EL is ESC[2K (erase the
\* entire row)
CHA == "ESC[1G"
CUU == "ESC[1A"
EL == "ESC[2K"
\* a loop body that moves up before every erase
RECURSIVE clear_from_always_up(_, _)
clear_from_always_up(i, lines) ==
  IF i >= lines THEN <<>>
  ELSE <<CUU>> \o <<EL, CHA>> \o clear_from_always_up(i + 1, lines)
\* for i in range(lines): if i > 0: write(CUU); write(EL CHA) -- from i on
RECURSIVE clear_from(_, _)
clear_from(i, lines) ==
  IF i >= lines THEN <<>>
  ELSE (IF i > 0 THEN <<CUU>> ELSE <<>>) \o <<EL, CHA>> \o clear_from(i + 1, lines)
\* clear_lines(lines)
clear_lines(lines) == <<CHA>> \o clear_from(0, lines)

\* the calls of these functions that are examined, and their results
NoFn == [op |-> "none", text |-> <<>>, ws |-> NoTty, lines |-> 0]
FnCalls ==
  {[op |-> "get_lines", text |-> t, ws |-> w, lines |-> 0] : t \in Texts, w \in Terminals}
  \cup {[op |-> "get_console_width", text |-> <<>>, ws |-> w, lines |-> 0] : w \in Terminals}
  \cup {[op |-> "clear_lines", text |-> <<>>, ws |-> NoTty, lines |-> n] : n \in 0..MaxN}
NoRet == [done |-> FALSE, rows |-> <<>>, raised |-> FALSE, width |-> 0, out |-> <<>>]

VARIABLES
  kind,       \* the scheduling model of the run: SyncRuntime or AsyncRuntime
  running,    \* running[l]: the loop's running flag
  message,    \* message[l]: the loop's pending message slot
  state,      \* the process-wide state class: handle, instance
  threads,    \* the workers created so far, by handle id
  callerpc,   \* the controlling caller: "idle", or "join" inside stop()
  call,       \* the caller's current (last) call and its arguments
  trace,      \* render-hook and clear_lines calls, in order
  fresh,      \* history: fresh[l] iff the slot of l holds a write that no
              \* render-hook call has received yet
  fn,         \* a call of one of the module's functions, with its arguments
  ret         \* what that call returned / wrote

vars == <<kind, running, message, state, threads, callerpc, call, trace, fresh, fn, ret>>
fnvars == <<fn, ret>>

NoCall ==
  [op |-> "none", self |-> 0, epilogue |-> NoArg, target |-> None, cont |-> 0,
   suspended |-> FALSE]
CallRec(op, self, epilogue, cont) ==
  [op |-> op, self |-> self, epilogue |-> epilogue, target |-> state.handle, cont |-> cont,
   suspended |-> FALSE]

Init ==
  /\ kind \in Kinds
  /\ running = [l \in Loops |-> FALSE]
  /\ message = [l \in Loops |-> ""]
  /\ state = [handle |-> None, instance |-> None]
  /\ threads = <<>>
  /\ callerpc = "idle"
  /\ call = NoCall
  /\ trace = <<>>
  /\ fresh = [l \in Loops |-> FALSE]
  /\ fn = NoFn
  /\ ret = NoRet

\* ---------------------------------------------------------------- output
RenderEv(h, l, m, e) == [op |-> "render", h |-> h, loop |-> l, msg |-> m, end |-> e, n |-> 0]
RaiseEv(h, l, m) == [op |-> "raise", h |-> h, loop |-> l, msg |-> m, end |-> FALSE, n |-> 0]
EraseEv(h, l, n) == [op |-> "erase", h |-> h, loop |-> l, msg |-> NoArg, end |-> FALSE, n |-> n]
StartEv(h, l) == [op |-> "start", h |-> h, loop |-> l, msg |-> NoArg, end |-> FALSE, n |-> 0]
Overflow == <<[op |-> "overflow", h |-> 0, loop |-> 0, msg |-> NoArg, end |-> FALSE, n |-> 0]>>
Emit(tr, e) ==
  IF tr = Overflow \/ Len(tr) >= MaxTrace THEN Overflow ELSE Append(tr, e)

\* ---------------------------------------------------------------- scheduling
\* Under asyncio a task runs from one suspension point to the next without
\* interleaving; under threads every step may interleave.
MidRun(h) == threads[h].pc \in {"check", "clear", "except"}
CallerMidRun ==
  \/ callerpc \in {"stop", "stop()"}
  \/ callerpc = "join" /\ ~call.suspended
CpuFree(me) ==
  \/ kind = "SyncRuntime"
  \/ /\ \A g \in DOMAIN threads : g # me => ~MidRun(g)
     /\ me # 0 => ~CallerMidRun

\* ---------------------------------------------------------------- run()
\* while self.running: clearable = self.render(self.message or None)
\* (the read of self.running and the hook call it guards are one step)
run_render(h) ==
  LET l == threads[h].loop
      arg == IF message[l] = "" THEN NoArg ELSE message[l]
  IN /\ threads[h].pc \in {"ready", "check"}
     /\ CpuFree(h)
     /\ IF ~running[l]
        THEN /\ threads' = [threads EXCEPT ![h].pc = "done", ![h].clearable = NoClearable]
             /\ trace' = trace
             /\ fresh' = fresh
        ELSE /\ \/ \E r \in HookReturns :
                     /\ threads' = [threads EXCEPT ![h].pc = "clear", ![h].clearable = r,
                                                   ![h].arg = arg]
                     /\ trace' = Emit(trace, RenderEv(h, l, arg, FALSE))
                \/ /\ threads' = [threads EXCEPT ![h].pc = "except", ![h].failed = TRUE]
                   /\ trace' = Emit(trace, RaiseEv(h, l, arg))
             /\ fresh' = [fresh EXCEPT ![l] = FALSE]
     /\ UNCHANGED <<kind, running, message, state, callerpc, call, fnvars>>

\* self.message = ""; then sleep(delay) / await asleep(delay)
run_clear(h) ==
  /\ threads[h].pc = "clear"
  /\ CpuFree(h)
  /\ message' = [message EXCEPT ![threads[h].loop] = ""]
  /\ threads' = [threads EXCEPT ![h].pc = "sleep", ![h].arg = NoArg]
  /\ fresh' = [fresh EXCEPT ![threads[h].loop] = FALSE]
  /\ UNCHANGED <<kind, running, state, callerpc, call, trace, fnvars>>

\* the delay is over: clear_lines(sum(clearable))
run_erase(h) ==
  /\ threads[h].pc = "sleep"
  /\ CpuFree(h)
  /\ trace' = Emit(trace, EraseEv(h, threads[h].loop, sum(threads[h].clearable)))
  /\ threads' = [threads EXCEPT ![h].pc = "check",
                                ![h].clearable = consumed(threads[h].clearable)]
  /\ UNCHANGED <<kind, running, message, state, callerpc, call, fresh, fnvars>>

\* except Exception: if clearable: clear_lines(sum(clearable))
run_except(h) ==
  LET c == threads[h].clearable
  IN /\ threads[h].pc = "except"
     /\ CpuFree(h)
     /\ trace' = IF clearable_truthy(c)
                 THEN Emit(trace, EraseEv(h, threads[h].loop, sum(c)))
                 ELSE trace
     /\ threads' = [threads EXCEPT ![h].pc = "done", ![h].clearable = NoClearable]
     /\ UNCHANGED <<kind, running, message, state, callerpc, call, fresh, fnvars>>

run(h) == run_render(h) \/ run_clear(h) \/ run_erase(h) \/ run_except(h)

\* ---------------------------------------------------------------- caller
Rt(l) == [type |-> kind, id |-> l]
Handle(h) == [type |-> HandleType(kind), id |-> h]
NewThread(l) ==
  [loop |-> l, pc |-> IF kind = "SyncRuntime" THEN "check" ELSE "ready",
   clearable |-> NoClearable, arg |-> NoArg, failed |-> FALSE]

\* a stop() that lost its guard
stop_never_noop(self) == FALSE
\* `if not self.running: return`
stop_is_noop(self) == ~running[self]

\* a stop() that does not wait for the worker
JoinReady_nowait(ref) == TRUE
\* state.handle.join() / await state.handle returns at once for a finished
\* worker; `if state.handle:` skips the wait when no handle is registered.
JoinReady(ref) == IF truthy(ref) THEN threads[ref.id].pc = "done" ELSE TRUE

\* `if epilogue:` -- None and the empty string are falsy
epilogue_truthy(epilogue) == epilogue # NoArg /\ epilogue # ""
\* a final message that lost its trailing line break
final_message_nobreak(m, epilogue) ==
  IF epilogue_truthy(epilogue) THEN m \o epilogue ELSE m
\* message = self.message; if epilogue: message = f"{message}{epilogue}\n"
final_message(m, epilogue) ==
  IF epilogue_truthy(epilogue) THEN m \o epilogue \o "\n" ELSE m

\* self.render(message, True); state.handle = None; state.instance = None
FinalRender(self, epilogue) ==
  Emit(trace, RenderEv(0, self, final_message(message[self], epilogue), TRUE))
Cleared == [handle |-> None, instance |-> None]

\* state.instance = self; self.running = True; the worker is created and
\* started; state.handle = handle.  r and tr are the running map and the
\* output it starts from.
Register(self, r, tr) ==
  /\ running' = [r EXCEPT ![self] = TRUE]
  /\ threads' = Append(threads, NewThread(self))
  /\ state' = [instance |-> Rt(self), handle |-> Handle(Len(threads) + 1)]
  /\ trace' = Emit(tr, StartEv(Len(threads) + 1, self))

\* The module-level stop(): it dispatches on the type of state.handle.
stop_dispatch ==
  IF isinstance(state.handle, "SyncRuntime") THEN "sync"
  ELSE IF isinstance(state.handle, "AsyncRuntime") THEN "async"
  ELSE "none"

\* The body of self.stop(epilogue) up to the wait, entered with call record c:
\* `if not self.running: return`, self.running = False, then the join / await
\* of state.handle, which suspends the caller unless the handle is absent or
\* its worker has finished.
StopBegin(self, c) ==
  IF stop_is_noop(self)
  THEN /\ callerpc' = "idle"
       /\ call' = NoCall
       /\ UNCHANGED <<running, message, state, threads, trace>>
  ELSE /\ running' = [running EXCEPT ![self] = FALSE]
       /\ callerpc' = "join"
       /\ call' = [c EXCEPT !.suspended = ~JoinReady(state.handle)]
       /\ UNCHANGED <<message, state, threads, trace>>

\* the caller enters loop.stop(...)
stop_call(self) ==
  /\ callerpc = "idle"
  /\ CpuFree(0)
  /\ callerpc' = "stop"
  /\ call' = CallRec("stop", self, NoArg, 0)
  /\ UNCHANGED <<kind, running, message, state, threads, trace, fresh, fnvars>>

\* loop.stop(epilogue), up to the wait for the worker
stop(epilogue) ==
  /\ callerpc = "stop"
  /\ StopBegin(call.self, CallRec("stop", call.self, epilogue, 0))
  /\ UNCHANGED <<kind, fresh, fnvars>>

\* the wait is over: final render, deregistration, and -- when the stop was
\* the one start() makes for the previous instance -- the rest of start()
stop_join ==
  /\ callerpc = "join"
  /\ JoinReady(call.target)
  /\ CpuFree(0)
  /\ IF call.cont = 0
     THEN /\ trace' = FinalRender(call.self, call.epilogue)
          /\ state' = Cleared
          /\ UNCHANGED <<running, threads>>
     ELSE Register(call.cont, running, FinalRender(call.self, call.epilogue))
  /\ callerpc' = "idle"
  /\ call' = NoCall
  /\ fresh' = [fresh EXCEPT ![call.self] = FALSE]
  /\ UNCHANGED <<kind, message, fnvars>>

\* the caller enters the module-level stop()
global_stop_call ==
  /\ callerpc = "idle"
  /\ CpuFree(0)
  /\ callerpc' = "stop()"
  /\ call' = CallRec("stop()", 0, NoArg, 0)
  /\ UNCHANGED <<kind, running, message, state, threads, trace, fresh, fnvars>>

\* the module-level stop()
global_stop ==
  /\ callerpc = "stop()"
  /\ IF stop_dispatch = "sync"
     THEN StopBegin(state.handle.id, CallRec("stop()", state.handle.id, NoArg, 0))
     ELSE \* "async": arun() of a stop() that finds no such runtime; "none": nothing
          /\ callerpc' = "idle"
          /\ call' = NoCall
          /\ UNCHANGED <<running, message, state, threads, trace>>
  /\ UNCHANGED <<kind, fresh, fnvars>>

\* loop.start()
start(self) ==
  /\ callerpc = "idle"
  /\ CpuFree(0)
  /\ ~running[self]
  /\ Len(threads) < MaxStarts
  /\ IF truthy(state.instance) /\ stop_dispatch = "sync" /\ ~stop_is_noop(state.handle.id)
     THEN StopBegin(state.handle.id, CallRec("start", state.handle.id, NoArg, self))
     ELSE /\ Register(self, running, trace)
          /\ UNCHANGED <<message, callerpc, call>>
  /\ UNCHANGED <<kind, fresh, fnvars>>

\* loop.message = text, written by the caller to a loop it has started
set_message(self, text) ==
  /\ callerpc = "idle"
  /\ CpuFree(0)
  /\ running[self]
  /\ self \in Writable
  /\ message' = [message EXCEPT ![self] = text]
  /\ fresh' = [fresh EXCEPT ![self] = TRUE]
  /\ UNCHANGED <<kind, running, state, threads, callerpc, call, trace, fnvars>>

Next ==
  \/ \E l \in Loops : start(l)
  \/ \E l \in Loops : stop_call(l)
  \/ \E e \in Epilogues : stop(e)
  \/ stop_join
  \/ global_stop_call
  \/ global_stop
  \/ \E l \in Loops, m \in Msgs : set_message(l, m)
  \/ \E h \in DOMAIN threads : run(h)

Spec == Init /\ [][Next]_vars

\* ---------------------------------------------------------------- functions
\* The module's functions, each applied once to the arguments of fn.
loopvars == <<kind, running, message, state, threads, callerpc, call, trace, fresh>>

call_get_lines ==
  /\ fn.op = "get_lines" /\ ~ret.done
  /\ ret' = [NoRet EXCEPT !.done = TRUE,
                          !.rows = get_lines(fn.text, fn.ws).rows,
                          !.raised = get_lines(fn.text, fn.ws).raised]
  /\ UNCHANGED <<loopvars, fn>>

call_get_console_width ==
  /\ fn.op = "get_console_width" /\ ~ret.done
  /\ ret' = [NoRet EXCEPT !.done = TRUE, !.width = get_console_width(fn.ws)]
  /\ UNCHANGED <<loopvars, fn>>

call_clear_lines ==
  /\ fn.op = "clear_lines" /\ ~ret.done
  /\ ret' = [NoRet EXCEPT !.done = TRUE, !.out = clear_lines(fn.lines)]
  /\ UNCHANGED <<loopvars, fn>>

FnInit ==
  /\ kind \in Kinds
  /\ running = [l \in Loops |-> FALSE]
  /\ message = [l \in Loops |-> ""]
  /\ state = [handle |-> None, instance |-> None]
  /\ threads = <<>>
  /\ callerpc = "idle"
  /\ call = NoCall
  /\ trace = <<>>
  /\ fresh = [l \in Loops |-> FALSE]
  /\ fn \in FnCalls
  /\ ret = NoRet

FnNext == call_get_lines \/ call_get_console_width \/ call_clear_lines

FnSpec == FnInit /\ [][FnNext]_vars

\* Fair scheduling: every worker that can take a step eventually takes one
\* (the OS scheduler for threads, the event loop's ready queue for tasks),
\* and a caller inside stop() / the module-level stop() goes on when it can.
\* Which calls the caller makes, and when, is left to the caller.
Worker(h) == h \in DOMAIN threads /\ run(h)
LiveSpec ==
  /\ Spec
  /\ \A h \in Handles : SF_vars(Worker(h))
  /\ WF_vars(\E e \in Epilogues : stop(e))
  /\ WF_vars(stop_join)
  /\ WF_vars(global_stop)

TypeOK ==
  /\ kind \in Kinds
  /\ running \in [Loops -> BOOLEAN]
  /\ callerpc \in {"idle", "join", "stop", "stop()"}
  /\ Len(threads) <= MaxStarts
  /\ Len(trace) <= MaxTrace
  /\ message \in [Loops -> Msgs \cup {""}]
  /\ fresh \in [Loops -> BOOLEAN]
  /\ \A l \in Loops : fresh[l] => message[l] # ""

\* ---------------------------------------------------------------- trace reading
Complete == trace # Overflow
Idx == 1..Len(trace)
IsStart(e, l) == e.op = "start" /\ e.loop = l
IsTick(e) == e.op = "render" /\ ~e.end
IsFinal(e, l) == e.op = "render" /\ e.end /\ e.loop = l
IsErase(e) == e.op = "erase"
Starts(l) == Cardinality({i \in Idx : IsStart(trace[i], l)})
Finals(l) == Cardinality({i \in Idx : IsFinal(trace[i], l)})
FinalsBetween(l, lo, hi) == Cardinality({j \in Idx : lo < j /\ j < hi /\ IsFinal(trace[j], l)})
\* loop a had been started and not yet finally rendered before position s
RunningAt(a, s) ==
  \E k \in Idx : /\ k < s
                 /\ IsStart(trace[k], a)
                 /\ FinalsBetween(a, k, s) = 0
FirstTick(h, i) ==
  /\ IsTick(trace[i]) /\ trace[i].h = h
  /\ \A k \in Idx : (k < i /\ IsTick(trace[k])) => trace[k].h # h
InStop(l) == callerpc \in {"stop", "join"} /\ call.self = l
Alive(h) == threads[h].pc # "done"
Live(l) == running[l] /\ \E h \in DOMAIN threads : threads[h].loop = l /\ Alive(h)

\* ---------------------------------------------------------------- claims

\* C1 (as stated): when B.start() is called while loop A is running, A's
\* final render (end = true) fires exactly once between that start and B's
\* first tick render.
C1_SingleActiveOrdering ==
  \A s \in Idx : \A i \in Idx :
    (trace[s].op = "start" /\ s < i /\ FirstTick(trace[s].h, i)) =>
      \A a \in Loops \ {trace[s].loop} :
        RunningAt(a, s) => FinalsBetween(a, s, i) = 1

\* C2 (as stated): at most one loop is running with a live worker, and that
\* loop is the one registered in state.instance, with state.handle its own
\* worker's handle.
C2_AtMostOneLive ==
  /\ Cardinality({l \in Loops : Live(l)}) <= 1
  /\ \A l \in Loops : Live(l) =>
       /\ state.instance = Rt(l)
       /\ truthy(state.handle)
       /\ threads[state.handle.id].loop = l

\* C3 (as stated): once L.stop() has returned, every worker of L has
\* terminated, and no tick render or erase of a worker of L follows L's
\* final render unless that worker was started after it.
C3_NoTickAfterStop ==
  /\ \A l \in Loops : (~running[l] /\ ~InStop(l)) =>
       \A h \in DOMAIN threads : threads[h].loop = l => ~Alive(h)
  /\ \A i \in Idx : \A j \in Idx :
       (/\ i < j
        /\ IsFinal(trace[i], trace[i].loop)
        /\ trace[j].op \in {"render", "raise", "erase"} /\ trace[j].h # 0
        /\ trace[j].loop = trace[i].loop)
       => \E k \in Idx : i < k /\ k < j /\ trace[k].op = "start" /\ trace[k].h = trace[j].h

\* C4: a stop() on a loop that is not running returns at once and changes
\* nothing (no render call, no join, running / message / state untouched),
\* so every start is answered by exactly one final render: a loop that is
\* running or being stopped has one final render fewer than starts, any
\* other loop has as many.
C4_StopIdempotent ==
  /\ [](Complete => \A l \in Loops :
          Finals(l) = Starts(l) - (IF running[l] \/ (callerpc = "join" /\ call.self = l)
                                   THEN 1 ELSE 0))
  /\ [][(callerpc = "stop" /\ callerpc' # "stop" /\ ~running[call.self]) =>
          (callerpc' = "idle" /\ UNCHANGED <<running, message, state, threads, trace>>)]_vars

\* a second stop() has been called on a loop that was started and stopped
C4_Witness ==
  /\ callerpc = "stop" /\ ~running[call.self]
  /\ Complete /\ Starts(call.self) = 1 /\ Finals(call.self) = 1

SingleLoop == \A h \in DOMAIN threads : \A g \in DOMAIN threads : threads[h].loop = threads[g].loop
NoFail == \A h \in DOMAIN threads : ~threads[h].failed
Ticks(h) == Cardinality({i \in Idx : IsTick(trace[i]) /\ trace[i].h = h})
Erases(h) == Cardinality({i \in Idx : IsErase(trace[i]) /\ trace[i].h = h})

\* C5: with a single loop and a hook that never fails, every erase directly
\* follows the tick render of the same worker, every tick render is directly
\* followed by its erase, at every iteration boundary a worker has erased as
\* often as it rendered, and once stop() has returned the output ends with
\* the final render, which no erase follows.
C5_ErasePairing ==
  (Complete /\ SingleLoop /\ NoFail) =>
    /\ \A i \in Idx : IsErase(trace[i]) =>
         /\ i > 1
         /\ IsTick(trace[i - 1])
         /\ trace[i - 1].h = trace[i].h
    /\ \A i \in Idx : (IsTick(trace[i]) /\ i < Len(trace)) =>
         /\ IsErase(trace[i + 1])
         /\ trace[i + 1].h = trace[i].h
    /\ \A h \in DOMAIN threads :
         /\ threads[h].pc \in {"ready", "check", "done"} => Erases(h) = Ticks(h)
         /\ threads[h].pc \in {"clear", "sleep"} => Ticks(h) = Erases(h) + 1
    /\ \A l \in Loops : (~running[l] /\ callerpc = "idle" /\ Starts(l) > 0) =>
         IsFinal(trace[Len(trace)], l)
    /\ \A i \in Idx : (IsFinal(trace[i], trace[i].loop) /\ i < Len(trace)) =>
         trace[i + 1].op = "start"

\* start, one tick with its erase, then the final render of a returned stop()
C5_Witness ==
  /\ Complete /\ SingleLoop /\ NoFail
  /\ callerpc = "idle"
  /\ Len(trace) = 4 /\ trace[1].op = "start"
  /\ IsTick(trace[2]) /\ IsErase(trace[3]) /\ IsFinal(trace[4], trace[1].loop)

\* the final message of the claim as amended / as stated
C6_amended_message(m, e) == IF e = NoArg \/ e = "" THEN m ELSE m \o e \o "\n"
C6_stated_message(m, e) == IF e = NoArg THEN m ELSE m \o e \o "\n"
StopReturns == callerpc = "join" /\ callerpc' = "idle"
FinalAppended(m) ==
  trace' # Overflow => trace' = Append(trace, RenderEv(0, call.self, m, TRUE))

\* C6 (amended): a stop(epilogue) on a running loop makes exactly one render
\* call with end = true, whose message is the pending message followed by
\* the epilogue and a line break when a non-empty epilogue was given, and just
\* the pending message when the epilogue is absent or empty; on return
\* running is false and state.instance and state.handle are None.
C6_FinalRender ==
  [][StopReturns =>
       /\ FinalAppended(C6_amended_message(message[call.self], call.epilogue))
       /\ ~running'[call.self]
       /\ state' = [handle |-> None, instance |-> None]]_vars

\* C6 (as stated): the epilogue and the line break are appended whenever an
\* epilogue was supplied.
C6_AsStated ==
  [][StopReturns =>
       /\ FinalAppended(C6_stated_message(message[call.self], call.epilogue))
       /\ ~running'[call.self]
       /\ state' = [handle |-> None, instance |-> None]]_vars

\* stop("e") has returned with the pending message "a" still in the slot
C6_Witness ==
  /\ Complete /\ Len(trace) > 0
  /\ callerpc = "idle"
  /\ trace[Len(trace)].op = "render" /\ trace[Len(trace)].end
  /\ trace[Len(trace)].msg = "ae\n"
  /\ ~running[trace[Len(trace)].loop]
  /\ state = [handle |-> None, instance |-> None]

GStopReturns ==
  /\ callerpc' = "idle"
  /\ callerpc = "stop()" \/ (callerpc = "join" /\ call.op = "stop()")

\* C7 (as stated): when the module-level stop() returns, the loop that was
\* registered as active has running = false, its final render has been made
\* once and the registration is cleared; with no active instance the call
\* changes nothing.
C7_GlobalStop ==
  [][GStopReturns =>
       IF truthy(state.instance)
       THEN /\ ~running'[state.instance.id]
            /\ state' = [handle |-> None, instance |-> None]
            /\ trace' # Overflow =>
                 /\ Len(trace') > 0
                 /\ IsFinal(trace'[Len(trace')], state.instance.id)
                 /\ Finals(state.instance.id) < Starts(state.instance.id)
       ELSE UNCHANGED <<running, message, state, threads, trace>>]_vars

\* C8 (as stated): under fair scheduling and with a render hook that always
\* returns, every stop() on a running loop eventually returns.
C8_StopTerminates ==
  \A l \in Loops :
    (callerpc = "join" /\ call.self = l /\ NoFail) ~> (callerpc = "idle" \/ ~NoFail)

Failed(l) == \E h \in DOMAIN threads : threads[h].loop = l /\ threads[h].failed

\* C9 (as stated): a worker whose render hook raised goes straight to its
\* handler and out of the loop, makes no further render call and leaves the
\* caller where it is, and a later stop() on that loop returns.
C9_RenderFailureIsolation ==
  /\ [][\A h \in DOMAIN threads : threads[h].failed =>
          /\ threads'[h].pc \in {"except", "done"}
          /\ (trace' # trace /\ trace' # Overflow) =>
               ~(/\ trace'[Len(trace')].op \in {"render", "raise"}
                 /\ trace'[Len(trace')].h = h)]_vars
  /\ [][\A h \in DOMAIN threads : (~threads[h].failed /\ threads'[h].failed) =>
          UNCHANGED <<callerpc, call, running, state>>]_vars
  /\ \A l \in Loops : (Failed(l) /\ callerpc = "join" /\ call.self = l) ~> (callerpc = "idle")

\* C10 (as stated): the slot is emptied only by the worker that has just
\* passed the slot's content to the render hook, so no write is discarded
\* without being rendered.
C10_NoWriteLost ==
  [][\A l \in Loops : (message[l] # "" /\ message'[l] = "") =>
       \E h \in DOMAIN threads :
         /\ threads[h].loop = l
         /\ threads[h].pc = "clear" /\ threads'[h].pc = "sleep"
         /\ threads[h].arg = message[l]]_vars

\* ---------------------------------------------------------------- row counts
Max(a, b) == IF a > b THEN a ELSE b
GetLinesDone == fn.op = "get_lines" /\ ret.done
\* printable ASCII lines: no control code point other than the line breaks
PlainAscii(text) == \A i \in 1..Len(text) : text[i] \in {"x", "m", LF}

\* C12 (as stated): for a frame of plain ASCII lines on a terminal W columns
\* wide, get_lines yields one value per logical line, max(1, ceil(L / W)) for
\* a line of length L, so 1 for an empty line.
C12_AsciiRowCount ==
  (GetLinesDone /\ fn.ws.ok /\ PlainAscii(fn.text)) =>
    LET lines == splitlines(fn.text)
    IN /\ ~ret.raised
       /\ ret.rows = [i \in 1..Len(lines) |-> Max(1, ceil(Len(lines[i]), fn.ws.col))]

\* C13: the row counts get_lines yields for a frame are those it yields for
\* the frame with its escape sequences removed (the same values, or the same
\* failure), removing them twice removes nothing more, and no ESC ... m is
\* left after the removal.
C13_AnsiZeroWidth ==
  GetLinesDone =>
    /\ [rows |-> ret.rows, raised |-> ret.raised] = get_lines(sub(fn.text), fn.ws)
    /\ sub(sub(fn.text)) = sub(fn.text)
    /\ \A i \in 1..Len(sub(fn.text)) : \A k \in 1..Len(sub(fn.text)) :
         (i < k /\ sub(fn.text)[i] = ESC) => sub(fn.text)[k] # "m"

\* a frame of one visible letter followed by an escape sequence
C13_Witness ==
  /\ GetLinesDone
  /\ fn.text = <<"x", ESC, "x", "m">>
  /\ sub(fn.text) = <<"x">>
  /\ ret.rows = <<1>> /\ ~ret.raised

\* the width the claim gives a code point, and a line
DisplayWidth(c) ==
  IF c \in Wide THEN 2 ELSE IF c \in Combining THEN 0 ELSE IF c \in Control THEN -1 ELSE 1
RECURSIVE LineWidth(_)
LineWidth(line) == IF line = <<>> THEN 0 ELSE DisplayWidth(Head(line)) + LineWidth(Tail(line))

\* C14 (as stated): get_lines raises no error on a frame with non-ASCII code
\* points, and for every logical line that contains one it yields
\* max(1, ceil(S / W)), S being the sum of the widths of the line's code
\* points, not below 0.
C14_NonAsciiRowCount ==
  (GetLinesDone /\ fn.ws.ok /\ ~isascii(sub(fn.text))) =>
    LET lines == splitlines(sub(fn.text))
    IN /\ ~ret.raised
       /\ Len(ret.rows) = Len(lines)
       /\ \A i \in 1..Len(lines) : ~isascii(lines[i]) =>
            ret.rows[i] = Max(1, ceil(Max(0, LineWidth(lines[i])), fn.ws.col))

\* ---------------------------------------------------------------- eraser
\* what the commands do to a terminal: the cursor, and the rows erased
RECURSIVE Terminal(_, _)
Terminal(cmds, t) ==
  IF cmds = <<>> THEN t
  ELSE Terminal(Tail(cmds),
                IF Head(cmds) = CHA THEN [t EXCEPT !.col = 1]
                ELSE IF Head(cmds) = CUU THEN [t EXCEPT !.row = Max(1, t.row - 1)]
                ELSE [t EXCEPT !.erased = t.erased \cup {t.row}])
Count(s, c) == Cardinality({i \in 1..Len(s) : s[i] = c})
ClearLinesDone == fn.op = "clear_lines" /\ ret.done

\* C15: for n >= 1, clear_lines(n) first moves to column 1, then writes
\* exactly n erase-row commands and n - 1 cursor-up commands, no cursor-up
\* before the first erase; from any row that has n - 1 rows above it, exactly
\* the n rows ending at that row are erased and the cursor ends at column 1
\* of the topmost of them.
C15_EraserSequence ==
  (ClearLinesDone /\ fn.lines >= 1) =>
    /\ ret.out[1] = CHA
    /\ Count(ret.out, EL) = fn.lines
    /\ Count(ret.out, CUU) = fn.lines - 1
    /\ \A i \in 1..Len(ret.out) : ret.out[i] = CUU => \E k \in 1..(i - 1) : ret.out[k] = EL
    /\ \A r \in fn.lines..(MaxN + 1) : \A c \in 1..2 :
         Terminal(ret.out, [row |-> r, col |-> c, erased |-> {}])
           = [row |-> r - fn.lines + 1, col |-> 1, erased |-> (r - fn.lines + 1)..r]

\* clear_lines has been asked for more than one row
C15_Witness == ClearLinesDone /\ fn.lines > 1 /\ Len(ret.out) > 1

\* C16 (as stated): clear_lines(0) moves to column 1 and erases the current
\* row: one erase-row command, no cursor-up.
C16_EraserOneRowMinimum ==
  (ClearLinesDone /\ fn.lines = 0) =>
    /\ ret.out[1] = CHA
    /\ Count(ret.out, EL) = 1
    /\ Count(ret.out, CUU) = 0

\* C17 (as stated): get_console_width returns the column count of the
\* window-size reply when the query succeeds and 80 when it fails, a positive
\* number in every case.
C17_ConsoleWidth ==
  (fn.op = "get_console_width" /\ ret.done) =>
    /\ ret.width = (IF fn.ws.ok THEN fn.ws.col ELSE DefaultWidth)
    /\ ret.width > 0

\* ---------------------------------------------------------------- ticks
\* this step hands the content of l's slot to the render hook, in a tick or
\* in the final render
PassesMessage(l) ==
  /\ message[l] # ""
  /\ \/ \E h \in DOMAIN threads :
          /\ threads[h].loop = l
          /\ threads[h].pc \in {"ready", "check"}
          /\ threads'[h].pc \in {"clear", "except"}
     \/ StopReturns /\ call.self = l

\* C18 (as stated): a written message is handed to at most one render-hook
\* call: whenever the content of the slot is passed to the hook, it is a
\* write that no earlier call has received.
C18_MessageConsumedOnce ==
  [][\A l \in Loops : PassesMessage(l) => fresh[l]]_vars

\* the rows of the frame a worker has rendered and not yet erased
Unerased(h) ==
  IF threads[h].pc \in {"clear", "sleep"} THEN sum(threads[h].clearable) ELSE 0
\* this step of worker h calls clear_lines(sum(clearable))
CallsClearLines(h) ==
  \/ threads[h].pc = "sleep" /\ threads'[h].pc = "check"
  \/ /\ threads[h].pc = "except" /\ threads'[h].pc = "done"
     /\ clearable_truthy(threads[h].clearable)

\* C19 (as stated): every erase of the tick loop removes exactly the rows of
\* the frame rendered last and not yet erased, and none when there is no such
\* frame, also on the failure path.
C19_ExactErasure ==
  [][\A h \in DOMAIN threads :
       CallsClearLines(h) => sum(threads[h].clearable) = Unerased(h)]_vars

\* C20 (as stated): whenever the caller is outside start() and stop(), a loop
\* whose running flag is true has a live worker.
C20_RunningTracksWorker ==
  \A l \in Loops : (running[l] /\ callerpc = "idle") =>
    \E h \in DOMAIN threads : threads[h].loop = l /\ Alive(h)

====
